---- MODULE Spec2Model ----
(***************************************************************************)
(* Ticket dispatch and escalation of the helpdesk backend: automatic       *)
(* assignment (utils/autoAssignAgent.ts), the per-agent workload counters  *)
(* ticketsAssigned / resolved, the ticket update, transfer, client         *)
(* feedback and delete handlers (routes/tickets.ts), the ticket creating   *)
(* webhooks (routes/webhooks.ts, routes/leads.ts) and the escalation job   *)
(* runEscalation.  Every handler is one atomic action.                     *)
(***************************************************************************)
EXTENDS Integers, Sequences, FiniteSets, TLC

VARIABLES
  agents,    \* Agent collection, in the order Agent.find returns it
  tickets,   \* Ticket collection, in the order Ticket.find returns it
  nextId,    \* id of the next Ticket document
  tokenSeq,  \* number of feedback tokens drawn from crypto.randomBytes
  now,       \* the clock, in hours
  last,      \* the last request: operation, HTTP status, ticket, returned counts
  steps,     \* number of steps taken so far
  inflight   \* the requests between two of their awaits, by slot

vars == <<agents, tickets, nextId, tokenSeq, now, last, steps, inflight>>

(***************************************************************************)
(* Bounds of the model.                                                    *)
(***************************************************************************)
\* steps (requests, job runs and clock advances) of one behaviour
MaxSteps == 4
\* tickets created in one behaviour
MaxTickets == 2
\* feedback tokens issued in one behaviour
MaxTokens == 2
\* clock advances in one behaviour of Spec
MaxTime == 2
\* hours that pass in one clock advance of Spec
HoursPerTick == 24
\* agents of a pool drawn by AssignInit
MaxPool == 3
\* tickets that exist before the intake of AssignSpec
MaxInitTickets == 2
\* largest value of a workload counter
MaxCount == 3
\* requests that can be between two of their awaits at the same time
MaxInflight == 2

(***************************************************************************)
(* Program constants.                                                      *)
(***************************************************************************)
HOURS_TO_SENIOR == 24
HOURS_TO_SUPERVISOR == 48

None == "none"
\* a Date field that is not set
NoTime == 0 - 1
\* resolvedBy and resolvedAt: the model keeps whether the field holds a value
Set == "set"
\* a well-formed user id that belongs to no Agent document
Ghost == "ghost"
\* an agentId field that is there and holds null
Null == "null"

Tenants == {"T1", "T2"}
Priorities == {"Critical", "High", "Medium", "Low"}
\* autoAssignAgent's priority parameter is optional
NoPriority == "undefined"
Statuses == {"Open", "In Progress", "Resolved", "Closed"}
AgentLevels == {"agent", "senior-agent", "supervisor", "management"}
Feedbacks == {"satisfied", "dissatisfied", "no_response"}
OpenStatusInputs == {"Open", "In Progress"}

(***************************************************************************)
(* Agent documents.  The sequence order is the order Agent.find returns.   *)
(***************************************************************************)
Agent(u, t, l, n, r) ==
  [userId |-> u, tenantId |-> t, agentLevel |-> l, ticketsAssigned |-> n, resolved |-> r]

FixedPool ==
  << Agent("a1", "T1", "agent", 0, 0),
     Agent("a2", "T1", "senior-agent", 0, 0),
     Agent("a3", "T1", "senior-agent", 0, 0),
     Agent("a4", "T1", "supervisor", 0, 0) >>

\* user ids of the agents of a pool drawn by AssignInit, in document order
PoolIds == <<"a1", "a2", "a3", "a4">>

AgentIds == {"a1", "a2", "a3", "a4"}

\* the agent ids requests name as the new assignee
AssignTargets == {"a1", "a3", Ghost}

UserIds == AgentIds \cup {"admin", Ghost}

(***************************************************************************)
(* Sequence helpers.                                                       *)
(***************************************************************************)

\* Model.findOne({userId}): index of the first matching document, 0 if none
IndexOf(ags, uid) ==
  IF \E i \in DOMAIN ags : ags[i].userId = uid
  THEN CHOOSE i \in DOMAIN ags : ags[i].userId = uid /\ \A j \in 1..(i - 1) : ags[j].userId # uid
  ELSE 0

TicketIndex(tix, id) ==
  IF \E i \in DOMAIN tix : tix[i].id = id
  THEN CHOOSE i \in DOMAIN tix : tix[i].id = id
  ELSE 0

(***************************************************************************)
(* utils/autoAssignAgent.ts                                                *)
(***************************************************************************)
tenantAgents(ags, tenantId) == SelectSeq(ags, LAMBDA a : a.tenantId = tenantId)

unresolvedTicketsAlt(tix, tenantId) ==
  SelectSeq(tix, LAMBDA t : t.tenantId = tenantId /\ t.status # "Resolved" /\ t.agentId # None)

unresolvedTickets(tix, tenantId) ==
  SelectSeq(tix, LAMBDA t :
    t.tenantId = tenantId /\ t.status \notin {"Resolved", "Closed"} /\ t.agentId # None)

RECURSIVE CountTickets(_, _)
CountTickets(unresolved, counts) ==
  IF unresolved = <<>> THEN counts
  ELSE CountTickets(Tail(unresolved), [counts EXCEPT ![Head(unresolved).agentId] = @ + 1])

ticketCounts(tix, tenantId) ==
  CountTickets(unresolvedTickets(tix, tenantId), [u \in UserIds |-> 0])

candidateAgents(availableAgents, priority) ==
  IF priority = "Critical"
  THEN LET supervisors == SelectSeq(availableAgents, LAMBDA a : a.agentLevel = "supervisor")
       IN IF Len(supervisors) = 0
          THEN SelectSeq(availableAgents, LAMBDA a : a.agentLevel = "senior-agent")
          ELSE supervisors
  ELSE IF priority = "High"
  THEN SelectSeq(availableAgents,
                 LAMBDA a : a.agentLevel = "senior-agent" \/ a.agentLevel = "supervisor")
  ELSE availableAgents

RECURSIVE SelectLoopAlt(_, _, _, _)
SelectLoopAlt(cands, counts, selectedAgent, minTickets) ==
  IF cands = <<>> THEN selectedAgent
  ELSE LET agent == Head(cands)
           count == counts[agent.userId]
       IN IF count <= minTickets
          THEN SelectLoopAlt(Tail(cands), counts, agent, count)
          ELSE SelectLoopAlt(Tail(cands), counts, selectedAgent, minTickets)

RECURSIVE SelectLoop(_, _, _, _)
SelectLoop(cands, counts, selectedAgent, minTickets) ==
  IF cands = <<>> THEN selectedAgent
  ELSE LET agent == Head(cands)
           count == counts[agent.userId]
       IN IF count < minTickets
          THEN SelectLoop(Tail(cands), counts, agent, count)
          ELSE SelectLoop(Tail(cands), counts, selectedAgent, minTickets)

autoAssignAgent(ags, tix, tenantId, priority) ==
  LET availableAgents == tenantAgents(ags, tenantId)
      counts == ticketCounts(tix, tenantId)
      cands == candidateAgents(availableAgents, priority)
  IN IF Len(availableAgents) = 0 THEN None
     ELSE IF Len(cands) = 0 THEN None
     ELSE SelectLoop(cands, counts, cands[1], counts[cands[1].userId]).userId

(***************************************************************************)
(* Workload counters.                                                      *)
(***************************************************************************)
Max(a, b) == IF a > b THEN a ELSE b

\* agent.ticketsAssigned = (agent.ticketsAssigned || 0) + 1 on the document
\* found by Agent.findOne({userId}); nothing when there is none
IncAssigned(ags, uid) ==
  LET i == IndexOf(ags, uid)
  IN IF i = 0 THEN ags ELSE [ags EXCEPT ![i].ticketsAssigned = @ + 1]

DecAssignedNoFloor(ags, uid) ==
  LET i == IndexOf(ags, uid)
  IN IF i = 0 THEN ags ELSE [ags EXCEPT ![i].ticketsAssigned = @ - 1]

\* if (doc && doc.ticketsAssigned > 0) doc.ticketsAssigned = Math.max(0, doc.ticketsAssigned - 1)
DecAssigned(ags, uid) ==
  LET i == IndexOf(ags, uid)
  IN IF i # 0 /\ ags[i].ticketsAssigned > 0
     THEN [ags EXCEPT ![i].ticketsAssigned = Max(0, @ - 1)]
     ELSE ags

\* the guard of a decrement found the counter at 0
Floored(ags, uid) ==
  LET i == IndexOf(ags, uid) IN i # 0 /\ ags[i].ticketsAssigned = 0

\* status moved to Resolved/Closed: resolved + 1, ticketsAssigned - 1 floored
ResolveStats(ags, uid) ==
  LET i == IndexOf(ags, uid)
  IN IF i = 0 THEN ags
     ELSE DecAssigned([ags EXCEPT ![i].resolved = @ + 1], uid)

\* reopening: resolved - 1 floored, ticketsAssigned + 1
ReopenStats(ags, uid) ==
  LET i == IndexOf(ags, uid)
  IN IF i = 0 THEN ags
     ELSE IncAssigned(
            [ags EXCEPT ![i].resolved = IF @ > 0 THEN Max(0, @ - 1) ELSE @], uid)

CountersBounded(ags) ==
  \A i \in DOMAIN ags : ags[i].ticketsAssigned <= MaxCount /\ ags[i].resolved <= MaxCount

(***************************************************************************)
(* Requests and responses.                                                 *)
(***************************************************************************)
Response(op, code, tid, fl) ==
  [op |-> op, code |-> code, tid |-> tid, floored |-> fl,
   escalatedToSenior |-> 0, escalatedToSupervisor |-> 0, escalatedActivities |-> 0]

\* req.user of the protect middleware
User(id, role, tenantId) == [id |-> id, role |-> role, tenantId |-> tenantId]

Users ==
  { User("admin", "tenant-admin", "T1"),
    User("a1", "agent", "T1"),
    User("a4", "agent", "T1") }

\* a request that has started and not yet answered: the handler it runs, the
\* await it has reached and the values it holds in local variables
Request(kind, pc, tid, oldAgentId, newAgentId, read, unresolved, time) ==
  [kind |-> kind, pc |-> pc, tid |-> tid, oldAgentId |-> oldAgentId,
   newAgentId |-> newAgentId, read |-> read, unresolved |-> unresolved, time |-> time,
   escalatedToSenior |-> 0, escalatedToSupervisor |-> 0, escalatedActivities |-> 0]

NoRequest == Request("idle", "done", 0, None, None, 0, <<>>, 0)

Slots == 1..MaxInflight

AllIdle == [s \in Slots |-> NoRequest]

(***************************************************************************)
(* Ticket creation: routes/webhooks.ts, routes/leads.ts                    *)
(***************************************************************************)
NewTicket(id, tenantId, assignedAgentId, assignedAt) ==
  [id |-> id, tenantId |-> tenantId, status |-> "Open", agentId |-> assignedAgentId,
   escalationLevel |-> None, escalatedAt |-> now,
   assignedAt |-> assignedAt, resolvedBy |-> None, resolvedAt |-> None,
   clientFeedback |-> None, feedbackToken |-> None]

\* const currentLevel = ticket.escalationLevel || "agent"
currentLevel(t) == IF t.escalationLevel = None THEN "agent" ELSE t.escalationLevel

\* helper of webhooks.ts
updateAgentStats(ags, agentId) == IF agentId = None THEN ags ELSE IncAssigned(ags, agentId)

\* POST /api/webhooks/ticket
WebhookTicket(tenantId, priority) ==
  /\ nextId <= MaxTickets
  /\ LET assignedAgentId == autoAssignAgent(agents, tickets, tenantId, priority)
     IN /\ tickets' = Append(tickets,
             NewTicket(nextId, tenantId, assignedAgentId,
                       IF assignedAgentId # None THEN now ELSE NoTime))
        /\ agents' = updateAgentStats(agents, assignedAgentId)
        /\ CountersBounded(agents')
  /\ nextId' = nextId + 1
  /\ last' = Response("webhook/ticket", 201, nextId, FALSE)
  /\ UNCHANGED <<tokenSeq, now>>

\* POST /api/webhooks/whatsapp, telegram, phone, contact-form, chatbot,
\* tenant/:token and tenant/:token/:channel: as /ticket, without assignedAt
WebhookChannel(tenantId, priority) ==
  /\ nextId <= MaxTickets
  /\ LET assignedAgentId == autoAssignAgent(agents, tickets, tenantId, priority)
     IN /\ tickets' = Append(tickets, NewTicket(nextId, tenantId, assignedAgentId, NoTime))
        /\ agents' = updateAgentStats(agents, assignedAgentId)
        /\ CountersBounded(agents')
  /\ nextId' = nextId + 1
  /\ last' = Response("webhook/channel", 201, nextId, FALSE)
  /\ UNCHANGED <<tokenSeq, now>>

\* POST /api/webhooks/zoronal, for a service-request or support call
WebhookZoronal(tenantId, priority) ==
  /\ nextId <= MaxTickets
  /\ priority \in {"High", "Medium"}
  /\ LET assignedAgentId == autoAssignAgent(agents, tickets, tenantId, priority)
     IN tickets' = Append(tickets,
             NewTicket(nextId, tenantId, assignedAgentId,
                       IF assignedAgentId # None THEN now ELSE NoTime))
  /\ nextId' = nextId + 1
  /\ last' = Response("webhook/zoronal", 201, nextId, FALSE)
  /\ UNCHANGED <<agents, tokenSeq, now>>

\* POST /api/leads/:id/convert-to-ticket
ConvertLeadToTicket(tenantId, priority) ==
  /\ nextId <= MaxTickets
  /\ priority \in {"High", "Medium"}
  /\ LET assignedAgentId == autoAssignAgent(agents, tickets, tenantId, priority)
     IN tickets' = Append(tickets,
             NewTicket(nextId, tenantId, assignedAgentId,
                       IF assignedAgentId # None THEN now ELSE NoTime))
  /\ nextId' = nextId + 1
  /\ last' = Response("leads/convert", 200, nextId, FALSE)
  /\ UNCHANGED <<agents, tokenSeq, now>>

(***************************************************************************)
(* utils/agentPermissions.ts                                               *)
(***************************************************************************)
Permissions(view, work, close, assign, track, manage, dashboard) ==
  [canViewTickets |-> view, canWorkOnTickets |-> work, canCloseTickets |-> close,
   canAssignTickets |-> assign, canTrackAgents |-> track, canManageAgents |-> manage,
   canViewDashboard |-> dashboard]

getPermissionsForLevelAlt(level) ==
  CASE level = "agent" -> Permissions(TRUE, TRUE, TRUE, FALSE, FALSE, FALSE, TRUE)
    [] level = "senior-agent" -> Permissions(TRUE, TRUE, TRUE, TRUE, FALSE, FALSE, TRUE)
    [] level = "supervisor" -> Permissions(TRUE, TRUE, TRUE, TRUE, TRUE, TRUE, TRUE)
    [] level = "management" -> Permissions(FALSE, FALSE, FALSE, FALSE, FALSE, FALSE, TRUE)
    [] OTHER -> Permissions(FALSE, FALSE, FALSE, FALSE, FALSE, FALSE, FALSE)

getPermissionsForLevel(level) ==
  CASE level = "agent" -> Permissions(TRUE, TRUE, TRUE, FALSE, FALSE, FALSE, TRUE)
    [] level = "senior-agent" -> Permissions(TRUE, TRUE, TRUE, FALSE, FALSE, FALSE, TRUE)
    [] level = "supervisor" -> Permissions(TRUE, TRUE, TRUE, TRUE, TRUE, TRUE, TRUE)
    [] level = "management" -> Permissions(FALSE, FALSE, FALSE, FALSE, FALSE, FALSE, TRUE)
    [] OTHER -> Permissions(FALSE, FALSE, FALSE, FALSE, FALSE, FALSE, FALSE)

getAgentLevel(ags, userId) ==
  LET i == IndexOf(ags, userId) IN IF i = 0 THEN None ELSE ags[i].agentLevel

hasPermission(ags, user, permission) ==
  IF user.role # "agent" THEN TRUE
  ELSE LET agentLevel == getAgentLevel(ags, user.id)
       IN IF agentLevel = None THEN FALSE
          ELSE getPermissionsForLevel(agentLevel)[permission]

\* the n-th value of crypto.randomBytes(24).toString("hex")
Token(n) == ToString(n)

(***************************************************************************)
(* PUT /api/tickets/:id                                                    *)
(***************************************************************************)
\* the fields of req.body the handler reads; None for a field that is absent
Bodies ==
  [status : Statuses \cup {None},
   agentId : AssignTargets \cup {None},
   clientFeedback : {"satisfied", None}]

\* req.body.escalationLevel; None for a body that does not carry the field
bodyEscalationLevel(body) ==
  IF "escalationLevel" \in DOMAIN body THEN body.escalationLevel ELSE None

Rejected(op, code, tid) ==
  /\ last' = Response(op, code, tid, FALSE)
  /\ UNCHANGED <<agents, tickets, nextId, tokenSeq, now>>

CloseAllowedAlt(user, ticket, body) ==
  \/ user.role = "super-admin" \/ user.role = "tenant-admin"
  \/ ticket.clientFeedback # None \/ body.clientFeedback # None
  \/ ticket.status = "Resolved"

\* canForceClose || hasFeedback
CloseAllowed(user, ticket, body) ==
  \/ user.role = "super-admin" \/ user.role = "tenant-admin"
  \/ ticket.clientFeedback # None \/ body.clientFeedback # None

UpdateTicket(user, tid, body) ==
  LET i == TicketIndex(tickets, tid)
  IN IF i = 0 THEN Rejected("update", 404, tid)
     ELSE
       LET ticket == tickets[i]
           oldStatus == ticket.status
           oldAgent == ticket.agentId
           newAgent == body.agentId
           \* newAgent && newAgent !== oldAgent; null?.toString() is undefined
           reassign == newAgent \notin {None, Null} /\ newAgent # oldAgent
           \* Object.assign(ticket, req.body)
           assigned == [ticket EXCEPT
                          !.status = IF body.status # None THEN body.status ELSE @,
                          !.agentId = IF body.agentId # None THEN body.agentId ELSE @,
                          !.clientFeedback =
                             IF body.clientFeedback # None THEN body.clientFeedback ELSE @,
                          !.escalationLevel =
                             IF bodyEscalationLevel(body) # None
                             THEN bodyEscalationLevel(body) ELSE @]
           statusChanged == body.status # None /\ body.status # oldStatus
           stamping == statusChanged /\ body.status \in {"Resolved", "Closed"}
           reopening == statusChanged /\ ~stamping /\ oldStatus \in {"Resolved", "Closed"}
           stamped ==
             IF stamping
             THEN [assigned EXCEPT
                     !.resolvedBy = Set, !.resolvedAt = Set,
                     !.feedbackToken = IF body.status = "Resolved" THEN Token(tokenSeq + 1) ELSE @]
             ELSE IF statusChanged
             THEN [assigned EXCEPT !.resolvedBy = None, !.resolvedAt = None]
             ELSE assigned
           \* the statistics go to the agent of ticket.agentId after Object.assign
           ags1 == IF stamping /\ assigned.agentId # None
                   THEN ResolveStats(agents, assigned.agentId)
                   ELSE IF reopening /\ assigned.agentId # None
                   THEN ReopenStats(agents, assigned.agentId)
                   ELSE agents
           ags2 == IF reassign /\ oldAgent # None THEN DecAssigned(ags1, oldAgent) ELSE ags1
           ags3 == IF reassign THEN IncAssigned(ags2, newAgent) ELSE ags2
           saved == IF reassign THEN [stamped EXCEPT !.assignedAt = now] ELSE stamped
           fl == \/ stamping /\ assigned.agentId # None /\ Floored(agents, assigned.agentId)
                 \/ reassign /\ oldAgent # None /\ Floored(ags1, oldAgent)
       IN IF user.role # "super-admin" /\ ticket.tenantId # user.tenantId
          THEN Rejected("update", 403, tid)
          ELSE IF reassign /\ ~hasPermission(agents, user, "canAssignTickets")
          THEN Rejected("update", 403, tid)
          ELSE IF body.status = "Closed" /\ oldStatus # "Closed"
                  /\ ~CloseAllowed(user, ticket, body)
          THEN Rejected("update", 400, tid)
          ELSE /\ body.status = "Resolved" /\ statusChanged => tokenSeq < MaxTokens
               /\ CountersBounded(ags3)
               /\ tickets' = [tickets EXCEPT ![i] = saved]
               /\ agents' = ags3
               /\ tokenSeq' = IF body.status = "Resolved" /\ statusChanged
                              THEN tokenSeq + 1 ELSE tokenSeq
               /\ last' = Response("update", 200, tid, fl)
               /\ UNCHANGED <<nextId, now>>

(***************************************************************************)
(* POST /api/tickets/:id/transfer                                          *)
(***************************************************************************)
TransferTicket(user, tid, toAgentId) ==
  LET i == TicketIndex(tickets, tid)
  IN IF i = 0 THEN Rejected("transfer", 404, tid)
     ELSE
       LET ticket == tickets[i]
           oldAgentId == ticket.agentId
           ags1 == IF oldAgentId # None THEN DecAssigned(agents, oldAgentId) ELSE agents
           ags2 == IncAssigned(ags1, toAgentId)
       IN IF user.role # "super-admin" /\ ticket.tenantId # user.tenantId
          THEN Rejected("transfer", 403, tid)
          ELSE IF ~hasPermission(agents, user, "canAssignTickets")
          THEN Rejected("transfer", 403, tid)
          ELSE IF toAgentId = None THEN Rejected("transfer", 400, tid)
          ELSE IF oldAgentId = toAgentId THEN Rejected("transfer", 400, tid)
          ELSE /\ CountersBounded(ags2)
               /\ tickets' = [tickets EXCEPT ![i].agentId = toAgentId, ![i].assignedAt = now]
               /\ agents' = ags2
               /\ last' = Response("transfer", 200, tid,
                                   oldAgentId # None /\ Floored(agents, oldAgentId))
               /\ UNCHANGED <<nextId, tokenSeq, now>>

(***************************************************************************)
(* POST /api/tickets/:id/client-feedback                                   *)
(***************************************************************************)
FeedbackTokens == {Token(n) : n \in 1..MaxTokens} \cup {None}

FeedbackInputs == Feedbacks \cup {"other", None}

TokenRefusedAlt(storedToken, feedbackToken) == feedbackToken # storedToken

\* !storedToken || feedbackToken !== storedToken
TokenRefused(storedToken, feedbackToken) ==
  storedToken = None \/ feedbackToken # storedToken

ApplyFeedbackAlt(ticket, feedback) ==
  IF feedback = "dissatisfied"
  THEN [ticket EXCEPT !.status = "In Progress"]
  ELSE [ticket EXCEPT !.status = "Closed", !.clientFeedback = feedback, !.resolvedAt = Set]

\* the ticket after an accepted verdict
ApplyFeedback(ticket, feedback) ==
  IF feedback = "dissatisfied"
  THEN [ticket EXCEPT !.status = "In Progress", !.clientFeedback = None]
  ELSE [ticket EXCEPT !.status = "Closed", !.clientFeedback = feedback, !.resolvedAt = Set]

ClientFeedback(tid, feedbackToken, feedback) ==
  LET i == TicketIndex(tickets, tid)
  IN IF i = 0 THEN Rejected("client-feedback", 404, tid)
     ELSE
       LET ticket == tickets[i]
           storedToken == ticket.feedbackToken
       IN IF TokenRefused(storedToken, feedbackToken)
          THEN Rejected("client-feedback", 401, tid)
          ELSE IF feedback \notin Feedbacks
          THEN Rejected("client-feedback", 400, tid)
          ELSE /\ tickets' = [tickets EXCEPT ![i] = ApplyFeedback(ticket, feedback)]
               /\ last' = Response("client-feedback", 200, tid, FALSE)
               /\ UNCHANGED <<agents, nextId, tokenSeq, now>>

(***************************************************************************)
(* DELETE /api/tickets/:id                                                 *)
(***************************************************************************)
\* middleware authorize("super-admin", "tenant-admin")
authorize(user) == user.role \in {"super-admin", "tenant-admin"}

DeleteTicket(user, tid) ==
  LET i == TicketIndex(tickets, tid)
  IN IF ~authorize(user) THEN Rejected("delete", 403, tid)
     ELSE IF i = 0 THEN Rejected("delete", 404, tid)
     ELSE /\ tickets' = SelectSeq(tickets, LAMBDA t : t.id # tid)
          /\ last' = Response("delete", 200, tid, FALSE)
          /\ UNCHANGED <<agents, nextId, tokenSeq, now>>

(***************************************************************************)
(* runEscalation (utils/escalationService) and POST /api/tickets/run-escalation *)
(***************************************************************************)
\* least-loaded agent of the level, or of any level when the level is empty
getLeastLoadedAgentAlt(ags, tenantId, level) ==
  LET atLevel == SelectSeq(ags, LAMBDA a : a.tenantId = tenantId /\ a.agentLevel = level)
      pool == IF Len(atLevel) = 0
              THEN SelectSeq(ags, LAMBDA a : a.tenantId = tenantId)
              ELSE atLevel
  IN IF Len(pool) = 0 THEN None
     ELSE pool[CHOOSE i \in DOMAIN pool :
                 /\ \A j \in DOMAIN pool : pool[i].ticketsAssigned <= pool[j].ticketsAssigned
                 /\ \A j \in 1..(i - 1) : pool[j].ticketsAssigned > pool[i].ticketsAssigned
              ].userId

\* Agent.find({tenantId, agentLevel}).sort({ticketsAssigned: 1}), first document;
\* documents with equal counters keep their collection order
getLeastLoadedAgent(ags, tenantId, level) ==
  LET pool == SelectSeq(ags, LAMBDA a : a.tenantId = tenantId /\ a.agentLevel = level)
  IN IF Len(pool) = 0 THEN None
     ELSE pool[CHOOSE i \in DOMAIN pool :
                 /\ \A j \in DOMAIN pool : pool[i].ticketsAssigned <= pool[j].ticketsAssigned
                 /\ \A j \in 1..(i - 1) : pool[j].ticketsAssigned > pool[i].ticketsAssigned
              ].userId

\* a scan that reads the Open tickets only
unresolvedScanAlt(tix) ==
  SelectSeq(tix, LAMBDA t : t.status = "Open" /\ t.agentId # None)

\* Ticket.find({status: {$in: ["Open", "In Progress"]}, agentId: {$exists: true}});
\* $exists matches a field that is there, whatever it holds: None is the field
\* that is not there
unresolvedScan(tix) ==
  SelectSeq(tix, LAMBDA t : t.status \in {"Open", "In Progress"} /\ t.agentId # None)

\* (now - (ticket.escalatedAt || ticket.created)) in hours; the field escalatedAt of
\* the model holds ticket.escalatedAt || ticket.created
hoursSinceEscalation(ticket, time) == time - ticket.escalatedAt

DueAlt(ticket, time) ==
  \/ currentLevel(ticket) = "agent" /\ hoursSinceEscalation(ticket, time) > HOURS_TO_SENIOR
  \/ currentLevel(ticket) = "senior-agent"
       /\ hoursSinceEscalation(ticket, time) > HOURS_TO_SUPERVISOR

Due(ticket, time) ==
  \/ currentLevel(ticket) = "agent" /\ hoursSinceEscalation(ticket, time) >= HOURS_TO_SENIOR
  \/ currentLevel(ticket) = "senior-agent"
       /\ hoursSinceEscalation(ticket, time) >= HOURS_TO_SUPERVISOR

\* an iteration that keeps the ticket's escalatedAt
EscalateTicketAlt(st, ticket, time) ==
  LET target == IF currentLevel(ticket) = "agent" THEN "senior-agent" ELSE "supervisor"
      newAgentId == getLeastLoadedAgent(st.agents, ticket.tenantId, target)
      oldAgentId == ticket.agentId
      i == TicketIndex(st.tickets, ticket.id)
      ags1 == DecAssigned(st.agents, oldAgentId)
      ags2 == IncAssigned(ags1, newAgentId)
  IN IF Due(ticket, time) /\ newAgentId # None
     THEN [tickets |-> [st.tickets EXCEPT ![i] =
                          [ticket EXCEPT !.agentId = newAgentId, !.escalationLevel = target,
                                         !.assignedAt = time]],
           agents |-> ags2,
           escalatedToSenior |-> st.escalatedToSenior + (IF target = "senior-agent" THEN 1 ELSE 0),
           escalatedToSupervisor |->
             st.escalatedToSupervisor + (IF target = "supervisor" THEN 1 ELSE 0),
           escalatedActivities |-> st.escalatedActivities + 1,
           floored |-> st.floored \/ Floored(st.agents, oldAgentId)]
     ELSE st

\* one iteration of the loop over the scanned tickets
EscalateTicket(st, ticket, time) ==
  LET target == IF currentLevel(ticket) = "agent" THEN "senior-agent" ELSE "supervisor"
      newAgentId == getLeastLoadedAgent(st.agents, ticket.tenantId, target)
      oldAgentId == ticket.agentId
      i == TicketIndex(st.tickets, ticket.id)
      ags1 == DecAssigned(st.agents, oldAgentId)
      ags2 == IncAssigned(ags1, newAgentId)
  IN IF Due(ticket, time) /\ newAgentId # None
     THEN [tickets |-> [st.tickets EXCEPT ![i] =
                          [ticket EXCEPT !.agentId = newAgentId, !.escalationLevel = target,
                                         !.escalatedAt = time, !.assignedAt = time]],
           agents |-> ags2,
           escalatedToSenior |-> st.escalatedToSenior + (IF target = "senior-agent" THEN 1 ELSE 0),
           escalatedToSupervisor |->
             st.escalatedToSupervisor + (IF target = "supervisor" THEN 1 ELSE 0),
           escalatedActivities |-> st.escalatedActivities + 1,
           floored |-> st.floored \/ Floored(st.agents, oldAgentId)]
     ELSE st

RECURSIVE EscalationLoop(_, _, _)
EscalationLoop(st, unresolved, time) ==
  IF unresolved = <<>> THEN st
  ELSE EscalationLoop(EscalateTicket(st, Head(unresolved), time), Tail(unresolved), time)

runEscalation(tix, ags, time) ==
  EscalationLoop([tickets |-> tix, agents |-> ags, escalatedToSenior |-> 0,
                  escalatedToSupervisor |-> 0, escalatedActivities |-> 0,
                  floored |-> FALSE],
                 unresolvedScan(tix), time)

RunEscalation(user) ==
  IF ~authorize(user) THEN Rejected("run-escalation", 403, 0)
  ELSE LET result == runEscalation(tickets, agents, now)
       IN /\ CountersBounded(result.agents)
          /\ tickets' = result.tickets
          /\ agents' = result.agents
          /\ last' = [op |-> "run-escalation", code |-> 200, tid |-> 0,
                      floored |-> result.floored,
                      escalatedToSenior |-> result.escalatedToSenior,
                      escalatedToSupervisor |-> result.escalatedToSupervisor,
                      escalatedActivities |-> result.escalatedActivities]
          /\ UNCHANGED <<nextId, tokenSeq, now>>

\* time passes
Tick ==
  /\ \E k \in 1..MaxTime :
       /\ now + k * HoursPerTick <= MaxTime * HoursPerTick
       /\ now' = now + k * HoursPerTick
  /\ UNCHANGED <<agents, tickets, nextId, tokenSeq, last>>

(***************************************************************************)
(* The system: a tenant with the fixed pool, all operations.               *)
(***************************************************************************)
TicketIds == 1..MaxTickets

Init ==
  /\ agents = FixedPool
  /\ tickets = <<>>
  /\ nextId = 1
  /\ tokenSeq = 0
  /\ now = 0
  /\ last = Response("init", 0, 0, FALSE)
  /\ steps = 0
  /\ inflight = AllIdle

\* a rejected request changes nothing but last: the steps after it are the steps
\* from the state before it, so a behaviour is not continued past a rejection
Accepting == last.code < 400

Step ==
  /\ Accepting
  /\ steps < MaxSteps
  /\ steps' = steps + 1
  /\ UNCHANGED inflight

Next ==
  \/ \E priority \in Priorities : Step /\ WebhookTicket("T1", priority)
  \/ \E priority \in Priorities : Step /\ WebhookChannel("T1", priority)
  \/ \E priority \in Priorities : Step /\ WebhookZoronal("T1", priority)
  \/ \E priority \in Priorities : Step /\ ConvertLeadToTicket("T1", priority)
  \/ \E user \in Users, tid \in TicketIds, body \in Bodies :
       Step /\ UpdateTicket(user, tid, body)
  \/ \E user \in Users, tid \in TicketIds, toAgentId \in AssignTargets \cup {None} :
       Step /\ TransferTicket(user, tid, toAgentId)
  \/ \E tid \in TicketIds, feedbackToken \in FeedbackTokens, feedback \in FeedbackInputs :
       Step /\ ClientFeedback(tid, feedbackToken, feedback)
  \/ \E user \in Users, tid \in TicketIds : Step /\ DeleteTicket(user, tid)
  \/ \E user \in Users : Step /\ RunEscalation(user)
  \/ Step /\ Tick

Spec == Init /\ [][Next]_vars

(***************************************************************************)
(* Automatic assignment on its own: any pool of a tenant, any tickets      *)
(* already there, then one intake through any creation path.               *)
(***************************************************************************)
LevelSeqs == UNION { [1..n -> AgentLevels] : n \in 0..MaxPool }

PoolOf(levels) == [i \in DOMAIN levels |-> Agent(PoolIds[i], "T1", levels[i], 0, 0)]

\* a ticket of an earlier intake, somewhere in its life
OldTicket(id, tenantId, status, agentId) ==
  [id |-> id, tenantId |-> tenantId, status |-> status, agentId |-> agentId,
   escalationLevel |-> None, escalatedAt |-> 0,
   assignedAt |-> NoTime, resolvedBy |-> None, resolvedAt |-> None,
   clientFeedback |-> None, feedbackToken |-> None]

OldTickets(pool) ==
  UNION { [1..n -> { <<tenantId, status, agentId>> :
                       tenantId \in Tenants, status \in Statuses,
                       agentId \in {pool[i].userId : i \in DOMAIN pool} \cup {None} }]
          : n \in 0..MaxInitTickets }

\* the counters of the pool agree with the tickets that are there
WithLoads(pool, tix) ==
  [i \in DOMAIN pool |->
     [pool[i] EXCEPT !.ticketsAssigned =
        Cardinality({j \in DOMAIN tix : /\ tix[j].agentId = pool[i].userId
                                        /\ tix[j].status \in {"Open", "In Progress"}})]]

AssignInit ==
  \E levels \in LevelSeqs :
    \E old \in OldTickets(PoolOf(levels)) :
      LET tix == [j \in DOMAIN old |->
                    OldTicket(MaxTickets + j, old[j][1], old[j][2], old[j][3])]
      IN /\ agents = WithLoads(PoolOf(levels), tix)
         /\ tickets = tix
         /\ nextId = MaxTickets
         /\ tokenSeq = 0
         /\ now = 0
         /\ last = Response("init", 0, 0, FALSE)
         /\ steps = 0
         /\ inflight = AllIdle

AssignNext ==
  \/ \E tenantId \in Tenants, priority \in Priorities :
       Step /\ WebhookTicket(tenantId, priority)
  \/ \E tenantId \in Tenants, priority \in Priorities :
       Step /\ WebhookChannel(tenantId, priority)
  \/ \E tenantId \in Tenants, priority \in Priorities :
       Step /\ WebhookZoronal(tenantId, priority)
  \/ \E tenantId \in Tenants, priority \in Priorities :
       Step /\ ConvertLeadToTicket(tenantId, priority)

AssignSpec == AssignInit /\ [][AssignNext]_vars

(***************************************************************************)
(* Manual assignment on its own: callers of every role and agent level     *)
(* reassign and transfer the tickets of a tenant.                          *)
(***************************************************************************)
\* the pool with a management agent in place of the second senior-agent
PermPool == [FixedPool EXCEPT ![3].agentLevel = "management"]

\* a user of every role; of role agent, one of every level and one with no
\* Agent document
AllUsers ==
  Users \cup { User("a2", "agent", "T1"),
               User("a3", "agent", "T1"),
               User(Ghost, "agent", "T1"),
               User("cust", "customer", "T1") }

\* updates that reassign, resolve, or both
PermBodies == {b \in Bodies : b.clientFeedback = None /\ b.status \in {None, "Resolved"}}

PermInit ==
  /\ agents = PermPool
  /\ tickets = <<>>
  /\ nextId = 1
  /\ tokenSeq = 0
  /\ now = 0
  /\ last = Response("init", 0, 0, FALSE)
  /\ steps = 0
  /\ inflight = AllIdle

PermNext ==
  \/ \E priority \in Priorities : Step /\ WebhookTicket("T1", priority)
  \/ \E user \in AllUsers, tid \in TicketIds, body \in PermBodies :
       Step /\ UpdateTicket(user, tid, body)
  \/ \E user \in AllUsers, tid \in TicketIds, toAgentId \in AssignTargets \cup {None} :
       Step /\ TransferTicket(user, tid, toAgentId)

PermSpec == PermInit /\ [][PermNext]_vars

(***************************************************************************)
(* Escalation on its own: any pool of a tenant, tickets at any tier, the   *)
(* clock at the hours around the thresholds, and escalation runs.          *)
(***************************************************************************)
\* values of Ticket.escalationLevel; None is a ticket never escalated
EscLevels == {None, "senior-agent", "supervisor"}

\* a ticket created at hour 0, or escalated to its level at hour 0
EscTicket(id, status, agentId, level) ==
  [OldTicket(id, "T1", status, agentId) EXCEPT !.escalationLevel = level, !.assignedAt = 0]

EscTickets(pool) ==
  UNION { [1..n -> { <<status, agentId, level>> :
                       status \in {"Open", "Resolved"},
                       agentId \in {pool[i].userId : i \in DOMAIN pool} \cup {None},
                       level \in EscLevels }]
          : n \in 1..MaxInitTickets }

\* the hours just below and at each threshold, counted from hour 0 and from an
\* escalation at HOURS_TO_SENIOR
EscTimes ==
  { HOURS_TO_SENIOR - 1, HOURS_TO_SENIOR,
    HOURS_TO_SUPERVISOR - 1, HOURS_TO_SUPERVISOR,
    HOURS_TO_SENIOR + HOURS_TO_SUPERVISOR - 1, HOURS_TO_SENIOR + HOURS_TO_SUPERVISOR }

EscInit ==
  \E levels \in LevelSeqs :
    \E old \in EscTickets(PoolOf(levels)) :
      LET tix == [j \in DOMAIN old |-> EscTicket(j, old[j][1], old[j][2], old[j][3])]
      IN /\ agents = WithLoads(PoolOf(levels), tix)
         /\ tickets = tix
         /\ nextId = Len(tix) + 1
         /\ tokenSeq = 0
         /\ now = 0
         /\ last = Response("init", 0, 0, FALSE)
         /\ steps = 0
         /\ inflight = AllIdle

\* time passes up to one of the hours of EscTimes
Advance ==
  /\ \E t \in EscTimes : t > now /\ now' = t
  /\ UNCHANGED <<agents, tickets, nextId, tokenSeq, last>>

EscNext ==
  \/ Advance /\ UNCHANGED <<steps, inflight>>
  \/ \E user \in {u \in Users : authorize(u)} : RunEscalation(user) /\ UNCHANGED <<steps, inflight>>

EscSpec == EscInit /\ [][EscNext]_vars

(***************************************************************************)
(* A ticket at any tier that is resolved, reopened by the client and       *)
(* escalated, in the fixed pool.                                           *)
(***************************************************************************)
LifeUsers == {u \in Users : authorize(u)}

\* updates that resolve
LifeBodies ==
  {b \in Bodies : b.status = "Resolved" /\ b.agentId = None /\ b.clientFeedback = None}

LifeInit ==
  \E old \in {o \in EscTickets(FixedPool) : Len(o) = 1 /\ o[1][1] = "Open"} :
    LET tix == [j \in DOMAIN old |-> EscTicket(j, old[j][1], old[j][2], old[j][3])]
    IN /\ agents = WithLoads(FixedPool, tix)
       /\ tickets = tix
       /\ nextId = Len(tix) + 1
       /\ tokenSeq = 0
       /\ now = 0
       /\ last = Response("init", 0, 0, FALSE)
       /\ steps = 0
       /\ inflight = AllIdle

LifeNext ==
  \/ Advance /\ UNCHANGED <<steps, inflight>>
  \/ \E user \in LifeUsers : RunEscalation(user) /\ UNCHANGED <<steps, inflight>>
  \/ \E user \in LifeUsers, tid \in TicketIds, body \in LifeBodies :
       UpdateTicket(user, tid, body) /\ UNCHANGED <<steps, inflight>>
  \/ \E tid \in TicketIds, feedbackToken \in FeedbackTokens, feedback \in Feedbacks :
       ClientFeedback(tid, feedbackToken, feedback) /\ UNCHANGED <<steps, inflight>>

LifeSpec == LifeInit /\ [][LifeNext]_vars

(***************************************************************************)
(* The tier of a ticket from its creation on: intake, escalation runs, and *)
(* updates whose body carries any of the fields Object.assign copies.      *)
(***************************************************************************)
\* bodies that also carry escalationLevel
TierBodies ==
  [status : {"Resolved", "In Progress", None},
   agentId : {Null, None},
   clientFeedback : {None},
   escalationLevel : {"agent", "senior-agent", "supervisor", None}]

TierNext ==
  \/ \E priority \in Priorities : Step /\ WebhookTicket("T1", priority)
  \/ \E user \in LifeUsers, tid \in TicketIds, body \in TierBodies :
       Step /\ UpdateTicket(user, tid, body)
  \/ \E user \in LifeUsers, tid \in TicketIds, toAgentId \in AssignTargets :
       Step /\ TransferTicket(user, tid, toAgentId)
  \/ \E tid \in TicketIds, feedbackToken \in FeedbackTokens, feedback \in Feedbacks :
       Step /\ ClientFeedback(tid, feedbackToken, feedback)
  \/ \E user \in LifeUsers : Step /\ RunEscalation(user)
  \/ Step /\ Tick

TierSpec == Init /\ [][TierNext]_vars

(***************************************************************************)
(* A ticket that stays open and assigned, in any pool, while time passes   *)
(* and the escalation run is called again and again.                       *)
(***************************************************************************)
\* updates that move the ticket between Open and In Progress
StayBodies ==
  {b \in Bodies : b.status \in OpenStatusInputs /\ b.agentId = None /\ b.clientFeedback = None}

\* pools of two agents of the levels a ticket is assigned or escalated to
StayPools ==
  {levels \in LevelSeqs :
     Len(levels) = 2 /\ \A k \in DOMAIN levels : levels[k] # "management"}

\* the agents a transfer names: the agents of the pool
StayTargets == {"a1", "a2"}

StayInit ==
  \E levels \in StayPools :
    \E old \in {o \in EscTickets(PoolOf(levels)) :
                  Len(o) = 1 /\ o[1][1] = "Open" /\ o[1][2] # None} :
      LET tix == [j \in DOMAIN old |-> EscTicket(j, old[j][1], old[j][2], old[j][3])]
      IN /\ agents = WithLoads(PoolOf(levels), tix)
         /\ tickets = tix
         /\ nextId = Len(tix) + 1
         /\ tokenSeq = 0
         /\ now = 0
         /\ last = Response("init", 0, 0, FALSE)
         /\ steps = 0
         /\ inflight = AllIdle

\* the hours at which a ticket of hour 0 and a ticket escalated at
\* HOURS_TO_SENIOR are due
StayTimes == {HOURS_TO_SENIOR, HOURS_TO_SUPERVISOR, HOURS_TO_SENIOR + HOURS_TO_SUPERVISOR}

TimePasses ==
  /\ \E t \in StayTimes : t > now /\ now' = t
  /\ UNCHANGED <<agents, tickets, nextId, tokenSeq, last, steps, inflight>>

RunCalled == \E user \in LifeUsers : RunEscalation(user) /\ UNCHANGED <<steps, inflight>>

StayNext ==
  \/ TimePasses
  \/ RunCalled
  \/ \E user \in LifeUsers, body \in StayBodies :
       UpdateTicket(user, 1, body) /\ UNCHANGED <<steps, inflight>>
  \/ \E user \in LifeUsers, toAgentId \in StayTargets :
       TransferTicket(user, 1, toAgentId) /\ UNCHANGED <<steps, inflight>>

\* the run is called every 15-30 minutes (cron) and the clock goes on
StaySpec == StayInit /\ [][StayNext]_vars /\ WF_vars(TimePasses) /\ WF_vars(RunCalled)

(***************************************************************************)
(* The handlers await after await.  A handler runs from one await to the   *)
(* next without interruption; between two awaits the other requests run.   *)
(* A request holds in its slot what its local variables hold.              *)
(***************************************************************************)
Answer(s, response) ==
  /\ inflight' = [inflight EXCEPT ![s] = NoRequest]
  /\ last' = response

\* a request arrives and takes a free slot
Begin(s) ==
  /\ inflight[s].kind = "idle"
  /\ Accepting
  /\ steps < MaxSteps
  /\ steps' = steps + 1

\* POST /api/webhooks/ticket up to Ticket.create
CreateBegin(s, tenantId, priority) ==
  /\ Begin(s)
  /\ nextId <= MaxTickets
  /\ LET assignedAgentId == autoAssignAgent(agents, tickets, tenantId, priority)
     IN /\ tickets' = Append(tickets,
             NewTicket(nextId, tenantId, assignedAgentId,
                       IF assignedAgentId # None THEN now ELSE NoTime))
        /\ inflight' = [inflight EXCEPT ![s] =
             Request("webhook/ticket", "findOne", nextId, None, assignedAgentId, 0, <<>>, now)]
  /\ nextId' = nextId + 1
  /\ UNCHANGED <<agents, tokenSeq, now, last>>

\* updateAgentStats: const agent = await Agent.findOne({userId})
CreateFind(s) ==
  /\ inflight[s].kind = "webhook/ticket" /\ inflight[s].pc = "findOne"
  /\ LET i == IndexOf(agents, inflight[s].newAgentId)
     IN IF i = 0
        THEN Answer(s, Response("webhook/ticket", 201, inflight[s].tid, FALSE))
        ELSE /\ inflight' = [inflight EXCEPT ![s].pc = "save",
                                             ![s].read = agents[i].ticketsAssigned]
             /\ UNCHANGED last
  /\ UNCHANGED <<agents, tickets, nextId, tokenSeq, now, steps>>

\* updateAgentStats: agent.ticketsAssigned = (agent.ticketsAssigned || 0) + 1 on
\* the document read by findOne, then await agent.save()
CreateSave(s) ==
  /\ inflight[s].kind = "webhook/ticket" /\ inflight[s].pc = "save"
  /\ LET i == IndexOf(agents, inflight[s].newAgentId)
     IN agents' = [agents EXCEPT ![i].ticketsAssigned = inflight[s].read + 1]
  /\ CountersBounded(agents')
  /\ Answer(s, Response("webhook/ticket", 201, inflight[s].tid, FALSE))
  /\ UNCHANGED <<tickets, nextId, tokenSeq, now, steps>>

\* POST /api/tickets/:id/transfer up to await ticket.save()
TransferBegin(s, user, tid, toAgentId) ==
  /\ Begin(s)
  /\ LET i == TicketIndex(tickets, tid)
     IN IF i = 0 THEN Rejected("transfer", 404, tid) /\ UNCHANGED inflight
        ELSE IF user.role # "super-admin" /\ tickets[i].tenantId # user.tenantId
        THEN Rejected("transfer", 403, tid) /\ UNCHANGED inflight
        ELSE IF ~hasPermission(agents, user, "canAssignTickets")
        THEN Rejected("transfer", 403, tid) /\ UNCHANGED inflight
        ELSE IF toAgentId = None \/ tickets[i].agentId = toAgentId
        THEN Rejected("transfer", 400, tid) /\ UNCHANGED inflight
        ELSE /\ tickets' = [tickets EXCEPT ![i].agentId = toAgentId, ![i].assignedAt = now]
             /\ inflight' = [inflight EXCEPT ![s] =
                  Request("transfer", "dec", tid, tickets[i].agentId, toAgentId, 0, <<>>, now)]
             /\ UNCHANGED <<agents, nextId, tokenSeq, now, last>>

\* the old agent's counter: findOne, guarded decrement, save
TransferDec(s) ==
  /\ inflight[s].kind = "transfer" /\ inflight[s].pc = "dec"
  /\ agents' = IF inflight[s].oldAgentId # None
               THEN DecAssigned(agents, inflight[s].oldAgentId)
               ELSE agents
  /\ inflight' = [inflight EXCEPT ![s].pc = "inc"]
  /\ UNCHANGED <<tickets, nextId, tokenSeq, now, last, steps>>

\* the new agent's counter: findOne, increment, save; then the answer
TransferInc(s) ==
  /\ inflight[s].kind = "transfer" /\ inflight[s].pc = "inc"
  /\ agents' = IncAssigned(agents, inflight[s].newAgentId)
  /\ CountersBounded(agents')
  /\ Answer(s, Response("transfer", 200, inflight[s].tid, FALSE))
  /\ UNCHANGED <<tickets, nextId, tokenSeq, now, steps>>

\* POST /api/tickets/run-escalation up to const now = new Date()
RunScan(s, user) ==
  /\ Begin(s)
  /\ IF ~authorize(user)
     THEN Rejected("run-escalation", 403, 0) /\ UNCHANGED inflight
     ELSE /\ inflight' = [inflight EXCEPT ![s] =
               Request("run-escalation", "loop", 0, None, None, 0, unresolvedScan(tickets), now)]
          /\ UNCHANGED <<agents, tickets, nextId, tokenSeq, now, last>>

\* the next ticket of the scan, up to await ticket.save(): the document is the
\* one the scan read, and save() writes the fields the loop has assigned
RunTicket(s) ==
  /\ inflight[s].kind = "run-escalation" /\ inflight[s].pc = "loop"
  /\ inflight[s].unresolved # <<>>
  /\ LET ticket == Head(inflight[s].unresolved)
         target == IF currentLevel(ticket) = "agent" THEN "senior-agent" ELSE "supervisor"
         newAgentId == getLeastLoadedAgent(agents, ticket.tenantId, target)
         i == TicketIndex(tickets, ticket.id)
     IN IF Due(ticket, inflight[s].time) /\ newAgentId # None
        THEN /\ tickets' = [tickets EXCEPT ![i].agentId = newAgentId,
                                           ![i].escalationLevel = target,
                                           ![i].escalatedAt = inflight[s].time,
                                           ![i].assignedAt = inflight[s].time]
             /\ inflight' = [inflight EXCEPT ![s].pc = "dec",
                                             ![s].tid = ticket.id,
                                             ![s].oldAgentId = ticket.agentId,
                                             ![s].newAgentId = newAgentId]
        ELSE /\ inflight' = [inflight EXCEPT ![s].unresolved = Tail(@)]
             /\ UNCHANGED tickets
  /\ UNCHANGED <<agents, nextId, tokenSeq, now, last, steps>>

\* the old agent's counter: findOne, guarded decrement, save
RunDec(s) ==
  /\ inflight[s].kind = "run-escalation" /\ inflight[s].pc = "dec"
  /\ agents' = DecAssigned(agents, inflight[s].oldAgentId)
  /\ inflight' = [inflight EXCEPT ![s].pc = "inc"]
  /\ UNCHANGED <<tickets, nextId, tokenSeq, now, last, steps>>

\* a loop that does not move on to the next ticket of the scan
RunIncAlt(s) ==
  /\ inflight[s].kind = "run-escalation" /\ inflight[s].pc = "inc"
  /\ agents' = IncAssigned(agents, inflight[s].newAgentId)
  /\ CountersBounded(agents')
  /\ LET toSenior == currentLevel(Head(inflight[s].unresolved)) = "agent"
     IN inflight' = [inflight EXCEPT
          ![s].pc = "loop",
          ![s].escalatedToSenior = IF toSenior THEN @ + 1 ELSE @,
          ![s].escalatedToSupervisor = IF toSenior THEN @ ELSE @ + 1,
          ![s].escalatedActivities = @ + 1]
  /\ UNCHANGED <<tickets, nextId, tokenSeq, now, last, steps>>

\* the new agent's counter, Activity.create and the count of the escalation
RunInc(s) ==
  /\ inflight[s].kind = "run-escalation" /\ inflight[s].pc = "inc"
  /\ agents' = IncAssigned(agents, inflight[s].newAgentId)
  /\ CountersBounded(agents')
  /\ LET toSenior == currentLevel(Head(inflight[s].unresolved)) = "agent"
     IN inflight' = [inflight EXCEPT
          ![s].pc = "loop",
          ![s].unresolved = Tail(@),
          ![s].escalatedToSenior = IF toSenior THEN @ + 1 ELSE @,
          ![s].escalatedToSupervisor = IF toSenior THEN @ ELSE @ + 1,
          ![s].escalatedActivities = @ + 1]
  /\ UNCHANGED <<tickets, nextId, tokenSeq, now, last, steps>>

\* return {escalatedToSenior, escalatedToSupervisor} and res.json
RunFinish(s) ==
  /\ inflight[s].kind = "run-escalation" /\ inflight[s].pc = "loop"
  /\ inflight[s].unresolved = <<>>
  /\ Answer(s, [op |-> "run-escalation", code |-> 200, tid |-> 0, floored |-> FALSE,
                escalatedToSenior |-> inflight[s].escalatedToSenior,
                escalatedToSupervisor |-> inflight[s].escalatedToSupervisor,
                escalatedActivities |-> inflight[s].escalatedActivities])
  /\ UNCHANGED <<agents, tickets, nextId, tokenSeq, now, steps>>

\* the run is about to await a write: ticket.save(), oldAgent.save(),
\* newAgent.save() or Activity.create
RunWrites(s) ==
  /\ inflight[s].kind = "run-escalation"
  /\ \/ /\ inflight[s].pc = "loop" /\ inflight[s].unresolved # <<>>
        /\ LET ticket == Head(inflight[s].unresolved)
               target == IF currentLevel(ticket) = "agent" THEN "senior-agent"
                         ELSE "supervisor"
           IN /\ Due(ticket, inflight[s].time)
              /\ getLeastLoadedAgent(agents, ticket.tenantId, target) # None
     \/ inflight[s].pc = "dec" /\ DecAssigned(agents, inflight[s].oldAgentId) # agents
     \/ inflight[s].pc = "inc"

\* the awaited write rejects: the loop has no try/catch, runEscalation rejects
\* and the route's catch answers 500
RunFail(s) ==
  /\ RunWrites(s)
  /\ Answer(s, Response("run-escalation", 500, inflight[s].tid, FALSE))
  /\ UNCHANGED <<agents, tickets, nextId, tokenSeq, now, steps>>

\* a priority that spreads the tickets over the pool and one that sends them
\* all to the supervisor
ConcPriorities == {"Medium", "Critical"}

\* no request is between two awaits
Quiet == inflight = AllIdle

ConcInit == Init

ConcNext ==
  \/ \E s \in Slots, priority \in ConcPriorities : CreateBegin(s, "T1", priority)
  \/ \E s \in Slots : CreateFind(s)
  \/ \E s \in Slots : CreateSave(s)
  \/ \E s \in Slots, user \in LifeUsers, tid \in TicketIds, toAgentId \in AssignTargets :
       TransferBegin(s, user, tid, toAgentId)
  \/ \E s \in Slots : TransferDec(s)
  \/ \E s \in Slots : TransferInc(s)
  \/ \E s \in Slots, user \in LifeUsers : RunScan(s, user)
  \/ \E s \in Slots : RunTicket(s)
  \/ \E s \in Slots : RunDec(s)
  \/ \E s \in Slots : RunInc(s)
  \/ \E s \in Slots : RunFinish(s)
  \/ \E s \in Slots : RunFail(s)
  \/ \E user \in LifeUsers, tid \in TicketIds, body \in LifeBodies :
       Step /\ UpdateTicket(user, tid, body)
  \/ Quiet /\ Tick /\ UNCHANGED <<steps, inflight>>

ConcSpec == ConcInit /\ [][ConcNext]_vars

\* a run that has started goes on: every awaited promise settles, and the
\* event loop resumes the function that awaits it
RunStep(s) == RunTicket(s) \/ RunDec(s) \/ RunInc(s) \/ RunFinish(s)

ConcFairSpec == ConcSpec /\ \A s \in Slots : WF_vars(RunStep(s))

(***************************************************************************)
(* Two tenants: the requests of tenant T1 with an agent of tenant T2 among *)
(* the Agent documents.                                                    *)
(***************************************************************************)
\* a3 is a senior-agent of the other tenant
TenantPool == [FixedPool EXCEPT ![3].tenantId = "T2"]

TenantInit ==
  /\ agents = TenantPool
  /\ tickets = <<>>
  /\ nextId = 1
  /\ tokenSeq = 0
  /\ now = 0
  /\ last = Response("init", 0, 0, FALSE)
  /\ steps = 0
  /\ inflight = AllIdle

TenantSpec == TenantInit /\ [][Next]_vars

(***************************************************************************)
(* Intake on its own: webhook requests of one priority that overlap.  The  *)
(* handler awaits autoAssignAgent, then the customer lookup, then          *)
(* Ticket.create, then updateAgentStats.                                   *)
(***************************************************************************)
IntakePriority == "High"

MaxIntake == 3

\* POST /api/webhooks/ticket up to the answer of await autoAssignAgent(...)
IntakeAssign(s, tenantId, priority) ==
  /\ Begin(s)
  /\ nextId + Cardinality({r \in Slots : inflight[r].pc = "create"}) <= MaxIntake
  /\ inflight' = [inflight EXCEPT ![s] =
       Request("webhook/ticket", "create", 0, None,
               autoAssignAgent(agents, tickets, tenantId, priority), 0, <<>>, now)]
  /\ UNCHANGED <<agents, tickets, nextId, tokenSeq, now, last>>

\* await Ticket.create({..., agentId: assignedAgentId, ...})
IntakeCreate(s, tenantId) ==
  /\ inflight[s].kind = "webhook/ticket" /\ inflight[s].pc = "create"
  /\ LET assignedAgentId == inflight[s].newAgentId
     IN tickets' = Append(tickets,
          NewTicket(nextId, tenantId, assignedAgentId,
                    IF assignedAgentId # None THEN now ELSE NoTime))
  /\ inflight' = [inflight EXCEPT ![s].pc = "findOne", ![s].tid = nextId]
  /\ nextId' = nextId + 1
  /\ UNCHANGED <<agents, tokenSeq, now, last, steps>>

IntakeNext ==
  \/ \E s \in Slots : IntakeAssign(s, "T1", IntakePriority)
  \/ \E s \in Slots : IntakeCreate(s, "T1")
  \/ \E s \in Slots : CreateFind(s)
  \/ \E s \in Slots : CreateSave(s)

IntakeSpec == Init /\ [][IntakeNext]_vars

(***************************************************************************)
(* Properties.                                                             *)
(***************************************************************************)
OpenStatuses == {"Open", "In Progress"}

\* number of tickets of tix assigned to uid that are Open or In Progress
OpenLoad(tix, uid) ==
  Cardinality({j \in DOMAIN tix : tix[j].agentId = uid /\ tix[j].status \in OpenStatuses})

\* the same, among the tickets of one tenant
TenantLoad(tix, tenantId, uid) ==
  Cardinality({j \in DOMAIN tix : /\ tix[j].tenantId = tenantId
                                  /\ tix[j].agentId = uid
                                  /\ tix[j].status \in OpenStatuses})

LevelOf(ags, uid) == getAgentLevel(ags, uid)

AnyPriority == Priorities \cup {NoPriority}

\* the step creates a ticket
Creates == nextId' = nextId + 1

Created == tickets'[Len(tickets')]

\* C1: every agent's ticketsAssigned equals the number of Open / In Progress
\* tickets assigned to that agent
C1_CounterConservation ==
  \A i \in DOMAIN agents :
    agents[i].ticketsAssigned = OpenLoad(tickets, agents[i].userId)

\* C2: automatic assignment of a Critical or High ticket returns no agent or a
\* senior-agent, never an agent, supervisor or management
C2_CriticalHighOnlySenior ==
  \A tenantId \in Tenants, priority \in {"Critical", "High"} :
    LET r == autoAssignAgent(agents, tickets, tenantId, priority)
    IN r = None \/ LevelOf(agents, r) = "senior-agent"

\* C3: automatic assignment of a Medium or Low ticket, or with no priority,
\* returns no agent or an agent or senior-agent, never a supervisor or management
C3_MediumLowNeverSupervisor ==
  \A tenantId \in Tenants, priority \in {"Medium", "Low", NoPriority} :
    LET r == autoAssignAgent(agents, tickets, tenantId, priority)
    IN r = None \/ LevelOf(agents, r) \in {"agent", "senior-agent"}

\* the tiers the specification lets a priority be assigned to
EligibleTiers(priority) ==
  IF priority \in {"Critical", "High"} THEN {"senior-agent"} ELSE {"agent", "senior-agent"}

\* C4: with no agent of the tenant in the eligible tier set of the priority,
\* automatic assignment returns null and the ticket is created unassigned
C4_NoEligibleAgentUnassigned ==
  \A tenantId \in Tenants, priority \in Priorities :
    (\A i \in DOMAIN agents :
        agents[i].tenantId = tenantId => agents[i].agentLevel \notin EligibleTiers(priority))
    => autoAssignAgent(agents, tickets, tenantId, priority) = None

\* the agents of the tenant in the eligible tier set of the priority, in document order
EligibleAgents(ags, tenantId, priority) ==
  SelectSeq(tenantAgents(ags, tenantId), LAMBDA a : a.agentLevel \in EligibleTiers(priority))

\* C5: among the eligible agents, automatic assignment returns one whose number
\* of Open / In Progress tickets is minimal, and the first such agent in input order
C5_LeastLoadedEligible ==
  \A tenantId \in Tenants, priority \in AnyPriority :
    LET elig == EligibleAgents(agents, tenantId, priority)
        r == autoAssignAgent(agents, tickets, tenantId, priority)
        load(k) == TenantLoad(tickets, tenantId, elig[k].userId)
    IN elig # <<>> =>
         \E k \in DOMAIN elig :
           /\ elig[k].userId = r
           /\ \A j \in DOMAIN elig : load(k) <= load(j)
           /\ \A j \in 1..(k - 1) : load(j) > load(k)

\* the selection loop alone: over the list the code filters for the priority, the
\* result is the first agent of minimal load
SelectionAmongCandidates ==
  \A tenantId \in Tenants, priority \in AnyPriority :
    LET cands == candidateAgents(tenantAgents(agents, tenantId), priority)
        r == autoAssignAgent(agents, tickets, tenantId, priority)
        load(k) == TenantLoad(tickets, tenantId, cands[k].userId)
    IN IF cands = <<>> THEN r = None
       ELSE \E k \in DOMAIN cands :
              /\ cands[k].userId = r
              /\ \A j \in DOMAIN cands : load(k) <= load(j)
              /\ \A j \in 1..(k - 1) : load(j) > load(k)

\* C6: the load automatic assignment uses for an agent is the number of the
\* tenant's tickets assigned to that agent with status Open or In Progress
C6_LoadCountsOpenOnly ==
  \A tenantId \in Tenants, uid \in UserIds :
    ticketCounts(tickets, tenantId)[uid] = TenantLoad(tickets, tenantId, uid)

\* an intake went to the first agent, whose only other ticket is Closed, although
\* the second agent of the same level has no ticket
C6_Witness ==
  /\ last.code = 201
  /\ Len(agents) >= 2
  /\ agents[1].agentLevel = "agent" /\ agents[2].agentLevel = "agent"
  /\ tickets[Len(tickets)].agentId = agents[1].userId
  /\ \E j \in DOMAIN tickets :
       /\ tickets[j].agentId = agents[1].userId
       /\ tickets[j].status = "Closed"
       /\ tickets[j].tenantId = tickets[Len(tickets)].tenantId
  /\ \A j \in DOMAIN tickets : tickets[j].agentId # agents[2].userId

\* C7: every agent's ticketsAssigned and resolved are >= 0
C7_CountersNonNegative ==
  \A i \in DOMAIN agents : agents[i].ticketsAssigned >= 0 /\ agents[i].resolved >= 0

\* an accepted request skipped a decrement because the counter was 0
C7_Witness ==
  /\ last.code = 200
  /\ last.floored
  /\ \E i \in DOMAIN agents : agents[i].ticketsAssigned = 0 /\ agents[i].resolved > 0

\* C8: every creation path creates the ticket Open at tier agent and, if
\* automatic assignment returns an agent, sets agentId and assignedAt and raises
\* that agent's ticketsAssigned by exactly 1; otherwise no counter changes
C8_CreationBookkeeping ==
  [][Creates =>
       /\ Created.status = "Open"
       /\ currentLevel(Created) = "agent"
       /\ Created.agentId = autoAssignAgent(agents, tickets, Created.tenantId, "Medium")
          \/ Created.agentId = autoAssignAgent(agents, tickets, Created.tenantId, "High")
          \/ Created.agentId = autoAssignAgent(agents, tickets, Created.tenantId, "Critical")
       /\ IF Created.agentId # None
          THEN /\ Created.assignedAt = now
               /\ agents' = IncAssigned(agents, Created.agentId)
          ELSE agents' = agents]_vars

\* the step is an accepted PUT /api/tickets/:id on the ticket at index i
UpdatedAt(i) ==
  /\ last'.op = "update" /\ last'.code = 200
  /\ i \in DOMAIN tickets /\ last'.tid = tickets[i].id
  /\ Len(tickets') = Len(tickets)

TokensIn(tix) == {tix[j].feedbackToken : j \in DOMAIN tix} \ {None}

\* C9: when an assigned Open / In Progress ticket is moved to Resolved,
\* resolvedBy and resolvedAt are set, a fresh feedback token is issued, the
\* assigned agent's ticketsAssigned drops by 1 (floored at 0) and its resolved
\* rises by 1, and no other agent's counters change
C9_ResolveBookkeeping ==
  [][\A i \in DOMAIN tickets :
       (/\ UpdatedAt(i)
        /\ tickets[i].status \in OpenStatuses
        /\ tickets[i].agentId # None
        /\ tickets'[i].status = "Resolved")
       => /\ tickets'[i].resolvedBy # None
          /\ tickets'[i].resolvedAt # None
          /\ tickets'[i].feedbackToken # None
          /\ tickets'[i].feedbackToken \notin TokensIn(tickets)
          /\ Len(agents') = Len(agents)
          /\ \A k \in DOMAIN agents :
               IF agents[k].userId = tickets[i].agentId
               THEN /\ agents'[k].ticketsAssigned = Max(0, agents[k].ticketsAssigned - 1)
                    /\ agents'[k].resolved = agents[k].resolved + 1
               ELSE agents'[k] = agents[k]]_vars

Elevated(user) == user.role \in {"super-admin", "tenant-admin"}

Kept(i) == i \in DOMAIN tickets /\ i \in DOMAIN tickets' /\ tickets'[i].id = tickets[i].id

\* C11: reopening a Resolved or Closed ticket to In Progress, by a status update
\* or by dissatisfied client feedback, raises the assigned agent's
\* ticketsAssigned by 1, lowers its resolved by 1 (floored at 0) and clears
\* resolvedBy and resolvedAt
C11_ReopenBookkeeping ==
  [][\A i \in DOMAIN tickets :
       (/\ Kept(i)
        /\ tickets[i].status \in {"Resolved", "Closed"}
        /\ tickets'[i].status = "In Progress"
        /\ tickets[i].agentId # None
        /\ tickets'[i].agentId = tickets[i].agentId)
       => /\ tickets'[i].resolvedBy = None
          /\ tickets'[i].resolvedAt = None
          /\ Len(agents') = Len(agents)
          /\ \A k \in DOMAIN agents :
               agents[k].userId = tickets[i].agentId
               => /\ agents'[k].ticketsAssigned = agents[k].ticketsAssigned + 1
                  /\ agents'[k].resolved = Max(0, agents[k].resolved - 1)]_vars

\* the caller is an agent user whose Agent document has level supervisor
SupervisorCaller(user) == user.role = "agent" /\ getAgentLevel(agents, user.id) = "supervisor"

\* the step is PUT /api/tickets/:id by user, naming a new assignee for the ticket at i
Reassigns(user, i, body) ==
  /\ last'.op = "update"
  /\ last'.tid = tickets[i].id
  /\ body.agentId # None
  /\ body.agentId # tickets[i].agentId
  /\ user.tenantId = tickets[i].tenantId
  /\ UpdateTicket(user, tickets[i].id, body)

NothingWritten == tickets' = tickets /\ agents' = agents

C13_TransferSupervisorOnly ==
  [][\A user \in AllUsers, i \in DOMAIN tickets, toAgentId \in AssignTargets :
       (/\ last'.op = "transfer"
        /\ last'.tid = tickets[i].id
        /\ user.tenantId = tickets[i].tenantId
        /\ user.role \notin {"super-admin", "tenant-admin"}
        /\ ~SupervisorCaller(user)
        /\ TransferTicket(user, tickets[i].id, toAgentId))
       => last'.code = 403 /\ NothingWritten]_vars

\* the step is an accepted reassignment (by update or transfer) of the ticket at
\* index i from one agent to a different one, both with an Agent document
Reassigned(i) ==
  /\ last'.op \in {"update", "transfer"} /\ last'.code = 200
  /\ Kept(i) /\ last'.tid = tickets[i].id
  /\ tickets[i].agentId # tickets'[i].agentId
  /\ IndexOf(agents, tickets[i].agentId) # 0
  /\ IndexOf(agents, tickets'[i].agentId) # 0

\* C14: a successful manual reassignment or transfer of a ticket from agent A
\* to a different agent B lowers A's ticketsAssigned by 1, raises B's by 1 and
\* sets assignedAt to now; every other agent's counters, all resolved counts
\* and the ticket's status and escalation tier are unchanged
C14_ReassignFrame ==
  [][\A i \in DOMAIN tickets :
       (Reassigned(i) /\ tickets'[i].status = tickets[i].status)
       => /\ tickets'[i].assignedAt = now
          /\ tickets'[i].escalationLevel = tickets[i].escalationLevel
          /\ Len(agents') = Len(agents)
          /\ \A k \in DOMAIN agents :
               /\ agents'[k].resolved = agents[k].resolved
               /\ agents'[k].ticketsAssigned =
                    IF agents[k].userId = tickets[i].agentId
                    THEN agents[k].ticketsAssigned - 1
                    ELSE IF agents[k].userId = tickets'[i].agentId
                    THEN agents[k].ticketsAssigned + 1
                    ELSE agents[k].ticketsAssigned]_vars

\* the step is an accepted verdict on the ticket at index i
FeedbackAccepted(i, feedback) ==
  /\ last'.op = "client-feedback" /\ last'.code = 200
  /\ Kept(i) /\ last'.tid = tickets[i].id
  /\ ClientFeedback(tickets[i].id, tickets[i].feedbackToken, feedback)

\* C15: a client feedback with the ticket's token and verdict satisfied or
\* no_response records the verdict and moves the ticket to Closed; with verdict
\* dissatisfied it moves the ticket to In Progress and leaves clientFeedback
\* cleared, so that an agent's later close without feedback is refused again
C15_FeedbackVerdict ==
  [][\A i \in DOMAIN tickets, feedback \in Feedbacks :
       FeedbackAccepted(i, feedback)
       => IF feedback = "dissatisfied"
          THEN /\ tickets'[i].status = "In Progress"
               /\ tickets'[i].clientFeedback = None
               /\ \A user \in Users :
                    ~Elevated(user)
                    => ~CloseAllowed(user, tickets'[i],
                                     [status |-> "Closed", agentId |-> None,
                                      clientFeedback |-> None])
          ELSE /\ tickets'[i].status = "Closed"
               /\ tickets'[i].clientFeedback = feedback]_vars

\* a dissatisfied verdict reopened the ticket: In Progress, no feedback recorded,
\* the token still stored
C15_Witness ==
  /\ last.op = "client-feedback" /\ last.code = 200
  /\ \E i \in DOMAIN tickets :
       /\ tickets[i].id = last.tid
       /\ tickets[i].status = "In Progress"
       /\ tickets[i].clientFeedback = None
       /\ tickets[i].feedbackToken # None
\* the step is a client feedback submission for ticket id tid that was refused
FeedbackRefused(tid, feedbackToken, feedback) ==
  /\ last'.op = "client-feedback"
  /\ last'.tid = tid
  /\ ClientFeedback(tid, feedbackToken, feedback)

StoredToken(tid) ==
  LET i == TicketIndex(tickets, tid) IN IF i = 0 THEN None ELSE tickets[i].feedbackToken

\* C16: a client feedback for an unknown ticket fails with 404; for a ticket
\* with no token, or with a token that is missing or differs from the stored
\* one, with 401; with the matching token and a verdict outside satisfied,
\* dissatisfied, no_response, with 400; in each case tickets and counters are
\* unchanged
C16_FeedbackFailures ==
  [][\A tid \in TicketIds, feedbackToken \in FeedbackTokens, feedback \in FeedbackInputs :
       FeedbackRefused(tid, feedbackToken, feedback)
       => IF TicketIndex(tickets, tid) = 0
          THEN last'.code = 404 /\ NothingWritten
          ELSE IF StoredToken(tid) = None \/ feedbackToken = None
                  \/ feedbackToken # StoredToken(tid)
          THEN last'.code = 401 /\ NothingWritten
          ELSE IF feedback \notin Feedbacks
          THEN last'.code = 400 /\ NothingWritten
          ELSE last'.code = 200]_vars

\* a submission with the ticket's token and an invalid verdict was refused
C16_Witness ==
  /\ last.op = "client-feedback" /\ last.code = 400
  /\ \E i \in DOMAIN tickets :
       /\ tickets[i].id = last.tid
       /\ tickets[i].feedbackToken # None
       /\ tickets[i].status = "Resolved"

\* C17: a feedback token is single-use: after an accepted submission, a
\* submission for the same ticket carrying the same token is refused
C17_TokenSingleUse ==
  [][\A i \in DOMAIN tickets :
       (/\ last.op = "client-feedback" /\ last.code = 200
        /\ last.tid = tickets[i].id
        /\ last'.op = "client-feedback"
        /\ last'.tid = tickets[i].id)
       => \A feedback \in Feedbacks :
            ClientFeedback(tickets[i].id, tickets[i].feedbackToken, feedback)
            => last'.code = 401 /\ NothingWritten]_vars

\* the status steps of the lifecycle
StatusSteps ==
  { <<"Open", "In Progress">>, <<"In Progress", "Resolved">>, <<"Resolved", "Closed">>,
    <<"Resolved", "In Progress">>, <<"Closed", "In Progress">> }

\* C18: every change of a ticket's status is one of Open -> In Progress,
\* In Progress -> Resolved, Resolved -> Closed, Resolved -> In Progress,
\* Closed -> In Progress
C18_StatusSteps ==
  [][\A i \in DOMAIN tickets :
       (Kept(i) /\ last'.tid = tickets[i].id /\ tickets'[i].status # tickets[i].status)
       => <<tickets[i].status, tickets'[i].status>> \in StatusSteps]_vars

\* the step is a completed escalation run
EscalationRan ==
  /\ last'.op = "run-escalation" /\ last'.code = 200
  /\ now' = now
  /\ Len(tickets') = Len(tickets)

\* agents of the tenant at the level, as indexes of ags
AtLevel(ags, tenantId, level) ==
  {k \in DOMAIN ags : ags[k].tenantId = tenantId /\ ags[k].agentLevel = level}

\* the ticket is Open or In Progress, assigned, at the tier, and has been in it
\* for at least the given hours
InTierFor(t, tier, hours) ==
  /\ t.status \in OpenStatuses
  /\ t.agentId # None
  /\ currentLevel(t) = tier
  /\ now - t.escalatedAt >= hours

\* tickets a run must move to a senior-agent
DueForSenior ==
  {i \in DOMAIN tickets : /\ InTierFor(tickets[i], "agent", HOURS_TO_SENIOR)
                          /\ AtLevel(agents, tickets[i].tenantId, "senior-agent") # {}}

\* C19: an escalation run moves every Open / In Progress assigned ticket at tier
\* agent, in the tier for at least HOURS_TO_SENIOR hours, in a tenant with a
\* senior-agent, to a senior-agent of its tenant, sets its tier to senior-agent
\* and escalatedAt to now, records one activity per escalation and counts it in
\* escalatedToSenior; when it is the only ticket escalated, the new assignee is
\* a senior-agent of lowest ticketsAssigned, the old assignee's counter drops
\* by 1 and the new assignee's rises by 1
C19_EscalateToSenior ==
  [][EscalationRan =>
       /\ last'.escalatedToSenior = Cardinality(DueForSenior)
       /\ last'.escalatedActivities = last'.escalatedToSenior + last'.escalatedToSupervisor
       /\ \A i \in DueForSenior :
            /\ tickets'[i].escalationLevel = "senior-agent"
            /\ tickets'[i].escalatedAt = now
            /\ \E k \in AtLevel(agents, tickets[i].tenantId, "senior-agent") :
                 /\ agents[k].userId = tickets'[i].agentId
                 /\ last'.escalatedActivities = 1
                    => /\ \A j \in AtLevel(agents, tickets[i].tenantId, "senior-agent") :
                            agents[k].ticketsAssigned <= agents[j].ticketsAssigned
                       /\ \A j \in DOMAIN agents :
                            agents'[j].ticketsAssigned =
                              IF tickets[i].agentId = tickets'[i].agentId
                              THEN agents[j].ticketsAssigned
                              ELSE IF agents[j].userId = tickets[i].agentId
                              THEN agents[j].ticketsAssigned - 1
                              ELSE IF j = k
                              THEN agents[j].ticketsAssigned + 1
                              ELSE agents[j].ticketsAssigned]_vars

\* the tier after the tier, and the hours a ticket stays in the tier before it is due
NextTier(tier) == IF tier = "agent" THEN "senior-agent" ELSE "supervisor"

Threshold(tier) == IF tier = "agent" THEN HOURS_TO_SENIOR ELSE HOURS_TO_SUPERVISOR

\* the ticket is Open or In Progress and assigned, at tier agent or senior-agent
Scanned(t) ==
  /\ t.status \in OpenStatuses
  /\ t.agentId # None
  /\ currentLevel(t) \in {"agent", "senior-agent"}

\* C20 as stated: a run leaves a ticket untouched while its hours in the tier
\* are below the threshold of the tier and escalates it once they are equal to
\* or above it
C20_ThresholdAlone ==
  [][EscalationRan =>
       \A i \in DOMAIN tickets :
         Scanned(tickets[i])
         => IF now - tickets[i].escalatedAt < Threshold(currentLevel(tickets[i]))
            THEN tickets'[i] = tickets[i]
            ELSE tickets'[i].escalationLevel = NextTier(currentLevel(tickets[i]))]_vars

\* C20 amended: a run leaves a ticket untouched while its hours in the tier are
\* below the threshold of the tier, and escalates it once they are equal to or
\* above it provided the tenant has an agent of the next tier
C20_ThresholdInclusive ==
  [][EscalationRan =>
       \A i \in DOMAIN tickets :
         Scanned(tickets[i])
         => IF now - tickets[i].escalatedAt < Threshold(currentLevel(tickets[i]))
            THEN tickets'[i] = tickets[i]
            ELSE AtLevel(agents, tickets[i].tenantId, NextTier(currentLevel(tickets[i]))) # {}
                 => /\ tickets'[i].escalationLevel = NextTier(currentLevel(tickets[i]))
                    /\ tickets'[i].escalatedAt = now]_vars

\* a run at exactly HOURS_TO_SUPERVISOR hours after hour 0 moved a senior-agent
\* tier ticket to a supervisor
C20_Witness ==
  /\ last.op = "run-escalation" /\ last.escalatedToSupervisor = 1
  /\ now = HOURS_TO_SUPERVISOR
  /\ \E i \in DOMAIN tickets :
       /\ tickets[i].escalationLevel = "supervisor"
       /\ tickets[i].escalatedAt = now

\* tickets a run must move to a supervisor
DueForSupervisor ==
  {i \in DOMAIN tickets : /\ InTierFor(tickets[i], "senior-agent", HOURS_TO_SUPERVISOR)
                          /\ AtLevel(agents, tickets[i].tenantId, "supervisor") # {}}

\* C21: an escalation run moves every Open / In Progress assigned ticket at tier
\* senior-agent, in the tier for at least HOURS_TO_SUPERVISOR hours, in a tenant
\* with a supervisor, to a supervisor of its tenant, sets its tier to supervisor
\* and escalatedAt to now and counts it in escalatedToSupervisor; when it is the
\* only ticket escalated, the new assignee is a supervisor of lowest
\* ticketsAssigned, the old assignee's counter drops by 1 and the new
\* assignee's rises by 1; a ticket at tier supervisor is left as it is
C21_EscalateToSupervisor ==
  [][EscalationRan =>
       /\ last'.escalatedToSupervisor = Cardinality(DueForSupervisor)
       /\ \A i \in DOMAIN tickets :
            currentLevel(tickets[i]) = "supervisor" => tickets'[i] = tickets[i]
       /\ \A i \in DueForSupervisor :
            /\ tickets'[i].escalationLevel = "supervisor"
            /\ tickets'[i].escalatedAt = now
            /\ \E k \in AtLevel(agents, tickets[i].tenantId, "supervisor") :
                 /\ agents[k].userId = tickets'[i].agentId
                 /\ last'.escalatedActivities = 1
                    => /\ \A j \in AtLevel(agents, tickets[i].tenantId, "supervisor") :
                            agents[k].ticketsAssigned <= agents[j].ticketsAssigned
                       /\ \A j \in DOMAIN agents :
                            agents'[j].ticketsAssigned =
                              IF tickets[i].agentId = tickets'[i].agentId
                              THEN agents[j].ticketsAssigned
                              ELSE IF agents[j].userId = tickets[i].agentId
                              THEN agents[j].ticketsAssigned - 1
                              ELSE IF j = k
                              THEN agents[j].ticketsAssigned + 1
                              ELSE agents[j].ticketsAssigned]_vars

\* scanned tickets that are due while their tenant has no agent of the next tier
NoTarget ==
  {i \in DOMAIN tickets :
     /\ Scanned(tickets[i])
     /\ now - tickets[i].escalatedAt >= Threshold(currentLevel(tickets[i]))
     /\ AtLevel(agents, tickets[i].tenantId, NextTier(currentLevel(tickets[i]))) = {}}

\* C22: an escalation run leaves a due ticket whose tenant has no agent of the
\* next tier exactly as it was (assignee, tier, escalatedAt), neither counts it
\* nor records an activity for it, changes no counter when no other ticket is
\* escalated, and answers 200
C22_NoTargetUntouched ==
  [][EscalationRan =>
       /\ \A i \in NoTarget : tickets'[i] = tickets[i]
       /\ last'.escalatedToSenior = Cardinality(DueForSenior)
       /\ last'.escalatedToSupervisor = Cardinality(DueForSupervisor)
       /\ last'.escalatedActivities = Cardinality(DueForSenior \cup DueForSupervisor)
       /\ DueForSenior \cup DueForSupervisor = {} => agents' = agents /\ tickets' = tickets
       /\ last'.code = 200]_vars

\* a run has answered 200 and left behind a ticket at tier agent that is due,
\* held by an agent of a tenant with supervisors and no senior-agent
C22_Witness ==
  /\ last.op = "run-escalation" /\ last.code = 200
  /\ \E i \in NoTarget :
       /\ currentLevel(tickets[i]) = "agent"
       /\ AtLevel(agents, tickets[i].tenantId, "supervisor") # {}
       /\ LevelOf(agents, tickets[i].agentId) = "agent"

\* C23: an escalation run raises a ticket by at most one tier, and a run on the
\* state it leaves, at the same hour, escalates nothing: it returns 0 and 0 and
\* writes no ticket and no counter
C23_OneTierPerRun ==
  [][EscalationRan =>
       /\ \A i \in DOMAIN tickets :
            tickets'[i].escalationLevel # tickets[i].escalationLevel
            => /\ currentLevel(tickets[i]) # "supervisor"
               /\ tickets'[i].escalationLevel = NextTier(currentLevel(tickets[i]))
       /\ LET again == runEscalation(tickets', agents', now')
          IN /\ again.escalatedToSenior = 0
             /\ again.escalatedToSupervisor = 0
             /\ again.escalatedActivities = 0
             /\ again.tickets = tickets'
             /\ again.agents = agents']_vars

\* a run escalated a ticket that had been at tier agent for HOURS_TO_SENIOR +
\* HOURS_TO_SUPERVISOR hours, in a tenant with a supervisor, and left it at tier
\* senior-agent
C23_Witness ==
  /\ last.op = "run-escalation" /\ last.escalatedToSenior >= 1
  /\ now = HOURS_TO_SENIOR + HOURS_TO_SUPERVISOR
  /\ \E i \in DOMAIN tickets :
       /\ tickets[i].escalationLevel = "senior-agent"
       /\ tickets[i].escalatedAt = now
       /\ tickets[i].status \in OpenStatuses
       /\ AtLevel(agents, tickets[i].tenantId, "supervisor") # {}

\* the run of the slot ends in this step
RunEnds(s) == inflight[s].kind = "run-escalation" /\ inflight'[s].kind = "idle"

\* tickets of the run's scan behind the one in hand that are due and have an
\* agent of the next tier
Pending(s) ==
  {k \in 2..Len(inflight[s].unresolved) :
     LET ticket == inflight[s].unresolved[k]
     IN /\ Due(ticket, inflight[s].time)
        /\ getLeastLoadedAgent(agents, ticket.tenantId, NextTier(currentLevel(ticket))) # None}

\* C24: an escalation run does not end, whether or not a write for the ticket
\* in hand has failed, while a ticket of its scan that is due and has an agent
\* of the next tier is still to be processed
C24_FailureIsolated ==
  [][\A s \in Slots : RunEnds(s) => Pending(s) = {}]_vars

\* the step is the agent.save() of the increment that the request of the slot
\* makes for its new ticket
IncrementSaved(s) ==
  /\ inflight[s].kind = "webhook/ticket" /\ inflight[s].pc = "save"
  /\ inflight'[s].kind = "idle"

\* C25: an increment of ticketsAssigned is a fetch-and-add: whatever requests
\* ran between its read and its write, the write leaves the agent's counter at
\* 1 above the value it had just before the write, so that the increments of
\* concurrent requests add up
C25_AtomicIncrement ==
  [][\A s \in Slots :
       IncrementSaved(s) => agents' = IncAssigned(agents, inflight[s].newAgentId)]_vars

\* the transfer or the escalation run of the slot has written the ticket's new
\* assignee and has not yet written the new agent's counter
Partial(s) ==
  /\ inflight[s].kind \in {"transfer", "run-escalation"}
  /\ inflight[s].pc \in {"dec", "inc"}

\* C26: while a reassignment is between the write of the ticket's assignee and
\* the write of the new agent's counter, no other request takes a step, so none
\* reads the tickets and counters of that moment
C26_ReassignAtomic ==
  [][\A s \in Slots : Partial(s) => inflight'[s] # inflight[s]]_vars

\* C27: no step raises the tier of a ticket that is Resolved or Closed: an
\* escalation run never handles a ticket that a request has resolved or closed
\* since the run scanned it
C27_NoEscalationOfResolved ==
  [][\A i \in DOMAIN tickets :
       tickets[i].status \in {"Resolved", "Closed"}
       => /\ tickets'[i].escalationLevel = tickets[i].escalationLevel
          /\ tickets'[i].escalatedAt = tickets[i].escalatedAt]_vars

\* the run of the slot takes the next ticket of its scan in hand and writes its
\* escalation
Escalates(s) ==
  /\ inflight[s].kind = "run-escalation"
  /\ inflight[s].pc = "loop" /\ inflight'[s].pc = "dec"

\* C28: a run escalates a ticket only from the tier the ticket is at: no
\* overlapping run has made the same tier step for the ticket since this run
\* scanned it, so a step is made, recorded and counted once
C28_NoDoubleEscalation ==
  [][\A s \in Slots :
       Escalates(s)
       => LET ticket == Head(inflight[s].unresolved)
          IN tickets[TicketIndex(tickets, ticket.id)].escalationLevel
               = ticket.escalationLevel]_vars

\* C29: no step changes the status, the assignee or the escalation tier of a
\* ticket that is Closed
C29_ClosedImmutable ==
  [][\A i \in DOMAIN tickets :
       Kept(i) /\ tickets[i].status = "Closed"
       => /\ tickets'[i].status = "Closed"
          /\ tickets'[i].agentId = tickets[i].agentId
          /\ tickets'[i].escalationLevel = tickets[i].escalationLevel]_vars

\* updates that assign the ticket to the user without an Agent document
GhostBodies == {b \in Bodies : b.agentId = Ghost}

\* C30: a transfer, or an update that reassigns, of an existing ticket to a
\* target without an Agent document, by a caller allowed to assign, answers 404
\* and writes no ticket and no counter
C30_UnknownTargetNotFound ==
  [][\A user \in Users, tid \in TicketIds :
       /\ (/\ last'.op = "transfer" /\ last'.tid = tid /\ last'.code # 403
           /\ TicketIndex(tickets, tid) # 0
           /\ TransferTicket(user, tid, Ghost))
          => last'.code = 404 /\ NothingWritten
       /\ \A body \in GhostBodies :
            (/\ last'.op = "update" /\ last'.tid = tid /\ last'.code # 403
             /\ TicketIndex(tickets, tid) # 0
             /\ UpdateTicket(user, tid, body))
            => last'.code = 404 /\ NothingWritten]_vars

\* seniority of an agent level; 0 for a user without an Agent document
Seniority(level) ==
  CASE level = "agent" -> 1
    [] level = "senior-agent" -> 2
    [] level = "supervisor" -> 3
    [] OTHER -> 0

\* C31: every ticket an escalation run escalates goes to an agent of strictly
\* higher seniority than the agent who held it before the run
C31_EscalationRaisesSeniority ==
  [][EscalationRan =>
       \A i \in DOMAIN tickets :
         tickets'[i].escalationLevel # tickets[i].escalationLevel
         => Seniority(LevelOf(agents, tickets'[i].agentId))
              > Seniority(LevelOf(agents, tickets[i].agentId))]_vars

\* C32: the escalation tier of a ticket starts at agent and changes only by the
\* single steps agent to senior-agent and senior-agent to supervisor, and only
\* in an escalation run; updates, transfers and client feedback leave it as it is
C32_TierMonotone ==
  [][\A i \in DOMAIN tickets' :
       IF Kept(i)
       THEN \/ currentLevel(tickets'[i]) = currentLevel(tickets[i])
            \/ /\ EscalationRan
               /\ currentLevel(tickets[i]) # "supervisor"
               /\ currentLevel(tickets'[i]) = NextTier(currentLevel(tickets[i]))
       ELSE currentLevel(tickets'[i]) = "agent"]_vars
\* the escalation scan is meant to pass over the ticket
PassedOver(t) == t.status \in {"Resolved", "Closed"} \/ t.agentId \in {None, Null}

\* C33: an escalation run leaves a ticket that is Resolved or Closed or has no
\* assigned agent as it is, and its result counts only tickets that are Open or
\* In Progress and assigned; with no such ticket no counter changes
C33_RunPassesOver ==
  [][EscalationRan =>
       /\ \A i \in DOMAIN tickets : PassedOver(tickets[i]) => tickets'[i] = tickets[i]
       /\ last'.escalatedToSenior + last'.escalatedToSupervisor
            = Cardinality({i \in DOMAIN tickets :
                             ~PassedOver(tickets[i]) /\ tickets'[i] # tickets[i]})
       /\ (\A i \in DOMAIN tickets : PassedOver(tickets[i])) => agents' = agents]_vars
\* what a run has left to do: three awaits for each ticket of its scan
Remaining(request) ==
  3 * Len(request.unresolved)
    - (IF request.pc = "dec" THEN 1 ELSE IF request.pc = "inc" THEN 2 ELSE 0)

RunGoesOn(s) == inflight[s].kind = "run-escalation" /\ inflight'[s].kind = "run-escalation"

NoRepeats(unresolved) ==
  \A j, k \in DOMAIN unresolved : unresolved[j].id = unresolved[k].id => j = k

\* C34: an escalation run ends, whatever other requests create or change
\* meanwhile: its scan holds each ticket once, each of its steps lessens what is
\* left of the scan and no step of another request adds to it
C34_RunTerminates ==
  /\ [](\A s \in Slots : NoRepeats(inflight[s].unresolved))
  /\ [][\A s \in Slots :
          RunGoesOn(s) => \/ inflight'[s] = inflight[s]
                          \/ Remaining(inflight'[s]) < Remaining(inflight[s])]_vars
  /\ \A s \in Slots : (inflight[s].kind = "run-escalation") ~> (inflight[s].kind = "idle")

\* a run has escalated a ticket and returned while another request was under way
C34_Witness ==
  /\ last.op = "run-escalation" /\ last.code = 200
  /\ last.escalatedToSenior + last.escalatedToSupervisor >= 1
  /\ \E s \in Slots : inflight[s].kind \notin {"idle", "run-escalation"}
\* the last hour of the clock
Horizon == HOURS_TO_SENIOR + HOURS_TO_SUPERVISOR

\* the ticket is open and assigned at the tier, its tenant has an agent of the
\* next tier, and the clock reaches the hour at which the ticket is due
Waiting(t, tier) ==
  /\ t.status \in OpenStatuses /\ t.agentId \notin {None, Null}
  /\ currentLevel(t) = tier
  /\ getLeastLoadedAgent(agents, t.tenantId, NextTier(tier)) # None
  /\ t.escalatedAt + Threshold(tier) <= Horizon

Eligible(priority) ==
  {candidateAgents(tenantAgents(agents, "T1"), priority)[k].userId :
     k \in DOMAIN candidateAgents(tenantAgents(agents, "T1"), priority)}

\* C36: when the overlapping intake requests of one priority have all answered,
\* the numbers of open tickets of any two eligible agents differ by at most 1
C36_BalancedUnderConcurrency ==
  Quiet => \A a, b \in Eligible(IntakePriority) :
             OpenLoad(tickets, a) - OpenLoad(tickets, b) <= 1
\* the step is an accepted update of ticket i that closes it from Resolved and
\* leaves its assignee
ClosesResolved(i) ==
  /\ Kept(i)
  /\ last'.op = "update" /\ last'.code = 200 /\ last'.tid = tickets[i].id
  /\ now' = now
  /\ tickets[i].status = "Resolved" /\ tickets'[i].status = "Closed"
  /\ tickets'[i].agentId = tickets[i].agentId

\* C37: an update that takes a ticket from Resolved to Closed changes no
\* agent's ticketsAssigned or resolved: the resolution was counted when the
\* ticket became Resolved
C37_CloseCountsNothing ==
  [][\A i \in DOMAIN tickets : ClosesResolved(i) => agents' = agents]_vars
\* the Agent document of the ticket's assignee, if there is one, is of the
\* ticket's tenant
AssigneeOfTenant(t) ==
  \A k \in DOMAIN agents : agents[k].userId = t.agentId => agents[k].tenantId = t.tenantId

\* C38: the agent a ticket is assigned to is an agent of the ticket's tenant,
\* and the requests of a tenant change no counter of another tenant's agent
C38_TenantScoped ==
  /\ [](\A i \in DOMAIN tickets : AssigneeOfTenant(tickets[i]))
  /\ [][\A k \in DOMAIN agents : agents[k].tenantId # "T1" => agents'[k] = agents[k]]_vars
\* the step is a client-feedback request
FeedbackSent == last'.op = "client-feedback" /\ now' = now /\ steps' # steps

\* C39: client feedback, whatever token it carries, leaves the status of a
\* ticket that is not Resolved as it is
C39_FeedbackOnlyOnResolved ==
  [][FeedbackSent =>
       \A i \in DOMAIN tickets :
         Kept(i) /\ tickets[i].status # "Resolved"
         => tickets'[i].status = tickets[i].status]_vars
====
